---- MODULE Spec2Model ----
(***************************************************************************)
(* A model of fpds_monitor.py: the selector-fallback interactor            *)
(* (safe_fill, safe_type, click_first_that_exists), the table extractor    *)
(* (parse_results_table), the session driver (run_once) and the            *)
(* dedup/notify stage of main with its persisted seen-set.                 *)
(*                                                                         *)
(* Text is modelled as a sequence of one-character strings, so that        *)
(* strip, lower, startswith, rsplit, slicing, joining and sorting are      *)
(* computed as the code computes them.                                     *)
(***************************************************************************)
EXTENDS Integers, Sequences, FiniteSets, TLC

(***************************************************************************)
(* Bounds of the model.                                                    *)
(***************************************************************************)
\* runs of main that share the state file
MaxRuns == 2
\* candidates in one interactor call
MaxCandidates == 3
\* elements one candidate resolves to: 0..MaxMatches
MaxMatches == 2

(***************************************************************************)
(* Text.                                                                   *)
(***************************************************************************)
\* the characters the model's texts use, in ascending code point order
Alphabet ==
  << "\t", "\n", " ", "$", ",", ".", "/", "0", "1", "2", "3", "4", "5", "6", "7", "8", "9", ":",
     "A", "C", "D", "E", "F", "M", "P", "R", "S", "T", "U", "V", "X", "Y",
     "a", "b", "c", "d", "e", "g", "h", "i", "l", "m", "n", "o", "p", "r", "s",
     "t", "u", "v", "w", "x", "|" >>

Ord(c) == CHOOSE i \in 1..Len(Alphabet) : Alphabet[i] = c

Whitespace == {" ", "\t", "\n"}

Digits == {"0", "1", "2", "3", "4", "5", "6", "7", "8", "9"}

LowerChar(c) ==
  CASE c = "A" -> "a" [] c = "C" -> "c" [] c = "D" -> "d" [] c = "E" -> "e"
    [] c = "F" -> "f" [] c = "M" -> "m" [] c = "P" -> "p" [] c = "R" -> "r"
    [] c = "S" -> "s" [] c = "T" -> "t" [] c = "U" -> "u" [] c = "V" -> "v"
    [] c = "X" -> "x" [] c = "Y" -> "y" [] OTHER -> c

\* str.lower()
Lower(s) == [i \in 1..Len(s) |-> LowerChar(s[i])]

\* sub in s
Contains(s, sub) ==
  \E i \in 0..(Len(s) - Len(sub)) : SubSeq(s, i + 1, i + Len(sub)) = sub

\* s.startswith(prefix)
StartsWith(s, prefix) ==
  Len(prefix) <= Len(s) /\ SubSeq(s, 1, Len(prefix)) = prefix

\* s.lstrip(chars)
LStrip(s, chars) ==
  IF \A i \in 1..Len(s) : s[i] \in chars
    THEN << >>
    ELSE LET k == CHOOSE i \in 1..Len(s) :
                    s[i] \notin chars /\ \A j \in 1..(i - 1) : s[j] \in chars
         IN  SubSeq(s, k, Len(s))

\* s.rstrip(chars)
RStrip(s, chars) ==
  IF \A i \in 1..Len(s) : s[i] \in chars
    THEN << >>
    ELSE LET k == CHOOSE i \in 1..Len(s) :
                    s[i] \notin chars /\ \A j \in (i + 1)..Len(s) : s[j] \in chars
         IN  SubSeq(s, 1, k)

\* s.strip()
Strip(s) == RStrip(LStrip(s, Whitespace), Whitespace)

\* s.rsplit("/", 1)[-1]
LastSegment(s) ==
  IF \A i \in 1..Len(s) : s[i] # "/"
    THEN s
    ELSE LET k == CHOOSE i \in 1..Len(s) :
                    s[i] = "/" /\ \A j \in (i + 1)..Len(s) : s[j] # "/"
         IN  SubSeq(s, k + 1, Len(s))

\* s[:n]
Truncate(s, n) == SubSeq(s, 1, IF Len(s) < n THEN Len(s) ELSE n)

RECURSIVE Join(_, _)
\* sep.join(parts)
Join(sep, parts) ==
  IF parts = << >> THEN << >>
  ELSE IF Len(parts) = 1 THEN parts[1]
  ELSE parts[1] \o sep \o Join(sep, Tail(parts))

\* the pattern \d{2}/\d{2}/\d{4} matches s at offset i
DateAt(s, i) ==
  /\ i + 9 <= Len(s)
  /\ \A k \in {0, 1, 3, 4, 6, 7, 8, 9} : s[i + k] \in Digits
  /\ s[i + 2] = "/"
  /\ s[i + 5] = "/"

\* re.search(r"\d{2}/\d{2}/\d{4}", s): the first match, or "" when there is none
DateSearch(s) ==
  IF \E i \in 1..Len(s) : DateAt(s, i)
    THEN LET k == CHOOSE i \in 1..Len(s) :
                    DateAt(s, i) /\ \A j \in 1..(i - 1) : ~DateAt(s, j)
         IN  SubSeq(s, k, k + 9)
    ELSE << >>

\* a < b as Python orders two str values (by code point, then by length)
LexLess(a, b) ==
  \E k \in 0..Len(a) :
    /\ k <= Len(b)
    /\ \A i \in 1..k : a[i] = b[i]
    /\ \/ k = Len(a) /\ k < Len(b)
       \/ k < Len(a) /\ k < Len(b) /\ Ord(a[k + 1]) < Ord(b[k + 1])

RECURSIVE Sorted(_)
\* sorted(list(S))
Sorted(S) ==
  IF S = {} THEN << >>
  ELSE LET m == CHOOSE x \in S : \A y \in S \ {x} : LexLess(x, y)
       IN  <<m>> \o Sorted(S \ {m})

\* set(data)
SetOf(seq) == {seq[i] : i \in 1..Len(seq)}

(***************************************************************************)
(* The table extractor, parse_results_table.                               *)
(* Markup is a sequence of tables in document order; a table is a sequence *)
(* of rows; a row has its header cells' texts (ths), its data cells'       *)
(* visible texts (tds) and its hyperlinks with an href, each with the raw  *)
(* text inside it.                                                         *)
(***************************************************************************)
PLACEHOLDER_TITLE == <<"F", "P", "D", "S", " ", "R", "e", "s", "u", "l", "t">>

PORTAL_ROOT ==
  <<"h", "t", "t", "p", "s", ":", "/", "/", "w", "w", "w", ".", "f", "p", "d", "s", ".", "g", "o", "v">>

ID_TRUNCATE == 120

RECURSIVE BestTableFrom_AnyRows(_, _, _, _)
\* the loop over tables without "len(rows) > 1": a table of one row can be chosen
BestTableFrom_AnyRows(html, t, best_table, max_rows) ==
  IF t > Len(html) THEN best_table
  ELSE IF Len(html[t]) > max_rows
    THEN BestTableFrom_AnyRows(html, t + 1, t, Len(html[t]))
    ELSE BestTableFrom_AnyRows(html, t + 1, best_table, max_rows)

RECURSIVE BestTableFrom(_, _, _, _)
\* the loop over tables: the first table with the most rows among those of more than one row (0: none)
BestTableFrom(html, t, best_table, max_rows) ==
  IF t > Len(html) THEN best_table
  ELSE IF Len(html[t]) > max_rows /\ Len(html[t]) > 1
    THEN BestTableFrom(html, t + 1, t, Len(html[t]))
    ELSE BestTableFrom(html, t + 1, best_table, max_rows)

BestTable(html) == BestTableFrom(html, 1, 0, 0)

RECURSIVE HeadersOf(_)
\* the stripped texts of every th of the table, in document order
HeadersOf(table) ==
  IF table = << >> THEN << >>
  ELSE [i \in 1..Len(table[1].ths) |-> Strip(table[1].ths[i])] \o HeadersOf(Tail(table))

\* one round of the loop over the headers
ScanStep(head, val, acc) ==
  LET h == Lower(head)
      a1 == IF Contains(h, <<"d", "a", "t", "e">>) /\ acc.date = << >>
              THEN [acc EXCEPT !.date = val] ELSE acc
      a2 == IF (Contains(h, <<"v", "e", "n", "d", "o", "r">>)
                  \/ Contains(h, <<"c", "o", "n", "t", "r", "a", "c", "t", "o", "r">>))
               /\ a1.vendor = << >>
              THEN [a1 EXCEPT !.vendor = val] ELSE a1
      a3 == IF (Contains(h, <<"a", "m", "o", "u", "n", "t">>)
                  \/ Contains(h, <<"v", "a", "l", "u", "e">>)
                  \/ Contains(val, <<"$">>))
               /\ a2.amount = << >>
              THEN [a2 EXCEPT !.amount = val] ELSE a2
  IN  a3

RECURSIVE ScanHeaders(_, _, _, _)
\* for idx, head in enumerate(headers): ...
ScanHeaders(headers, row_texts, idx, acc) ==
  IF idx > Len(headers) THEN acc
  ELSE ScanHeaders(headers, row_texts, idx + 1,
         ScanStep(headers[idx],
                  IF idx <= Len(row_texts) THEN row_texts[idx] ELSE << >>,
                  acc))

\* the link made absolute
NormalizeLink(link) ==
  IF StartsWith(link, <<"/">>) THEN PORTAL_ROOT \o link
  ELSE IF link # << >> /\ ~StartsWith(link, <<"h", "t", "t", "p">>)
    THEN PORTAL_ROOT \o <<"/">> \o LStrip(link, {".", "/"})
    ELSE link

\* title = row_links[0].get_text(strip=True) if row_links else "FPDS Result"
TitleOf(row_links) ==
  IF row_links # << >> THEN Strip(row_links[1].text) ELSE PLACEHOLDER_TITLE

\* award_id = title or (href's last segment if row_links else "|".join(row_texts)[:120])
AwardIdOf(title, row_links, row_texts) ==
  IF title # << >> THEN title
  ELSE IF row_links # << >> THEN LastSegment(row_links[1].href)
  ELSE Truncate(Join(<<"|">>, row_texts), ID_TRUNCATE)

\* the record of one data row
ParseRow(headers, tr) ==
  LET row_texts == tr.tds
      row_links == tr.links
      link == IF row_links # << >> THEN row_links[1].href ELSE << >>
      title == TitleOf(row_links)
      award_id == AwardIdOf(title, row_links, row_texts)
      scan == ScanHeaders(headers, row_texts, 1,
                [vendor |-> << >>, date |-> << >>, amount |-> << >>])
      date_signed == IF scan.date = << >>
                       THEN DateSearch(Join(<<" ">>, row_texts))
                       ELSE scan.date
      abs == NormalizeLink(link)
  IN  [id |-> Strip(award_id),
       title |-> IF title # << >> THEN title ELSE PLACEHOLDER_TITLE,
       vendor |-> scan.vendor,
       date |-> date_signed,
       amount |-> scan.amount,
       link |-> IF abs # << >> THEN abs ELSE PORTAL_ROOT]

RECURSIVE ParseRows(_, _)
\* the loop over the rows of the table: a row with no td is skipped
ParseRows(headers, rows) ==
  IF rows = << >> THEN << >>
  ELSE IF rows[1].tds = << >> THEN ParseRows(headers, Tail(rows))
  ELSE <<ParseRow(headers, rows[1])>> \o ParseRows(headers, Tail(rows))

parse_results_table(html) ==
  LET best_table == BestTable(html)
  IN  IF best_table = 0 THEN << >>
      ELSE ParseRows(HeadersOf(html[best_table]), html[best_table])

(***************************************************************************)
(* State.                                                                  *)
(***************************************************************************)
VARIABLES
  \* the table extractor: the markup given, the records returned, the position
  markup, records, xpc,
  \* the process: the position in main and run_once, the number of the run, and
  \* how the last process ended ("running", "returned", "uncaught")
  pc, run, ended,
  \* STATE_FILE: [kind |-> "absent" | "list" | "partial", ids |-> the list written]
  file,
  \* main's locals: seen, results, the position of the for loop, new_count
  seen, results, idx, new_count,
  \* the exception run_once raised ("none": none)
  exc,
  \* run_once's locals: the playwright driver, browser and context, the markup
  \* of the current page, page_results, and the number of the interactor call
  pw, browser, ctx, page_content, page_results, field,
  \* one interactor call: the function, the candidates with what the page does
  \* for each, the position of the for loop, the position in the function, the
  \* value returned, the operations performed on elements, the candidates tried
  fn, candidates, cand, ipc, ret, ops, tried,
  \* what send_discord was called with in this run, in order
  sent,
  \* history: the seen-set and the state file at the start of the run, the rid
  \* of every per-record notification of every run, and the previous run
  seen0, file0, notified, last,
  \* MAX_PAGES as read from the environment when the module is loaded, the
  \* number of pages run_once has handed to parse_results_table in this run,
  \* and whether the page now shown offers a control that leads to a next page
  MAX_PAGES, pages_extracted, next_control

extractVars == <<markup, records, xpc>>

mainVars == <<pc, run, ended, file, seen, results, idx, new_count, exc, sent,
              seen0, file0, notified, last>>

runVars == <<pw, browser, ctx, page_content, page_results, field>>

interactVars == <<fn, candidates, cand, ipc, ret, ops, tried>>

pagerVars == <<MAX_PAGES, pages_extracted, next_control>>

vars == <<extractVars, mainVars, runVars, interactVars, pagerVars>>

\* MAX_PAGES = int(os.getenv("MAX_PAGES", "3")): the value when the variable is unset
DEFAULT_MAX_PAGES == 3

\* the largest MAX_PAGES the environment sets
MaxPageCap == 2

\* the values of MAX_PAGES explored: int() accepts 0 as well as positive numbers
ConfiguredMaxPages == 0..MaxPageCap

\* no page requested: MAX_PAGES at its default, nothing extracted
PagerIdle ==
  /\ MAX_PAGES = DEFAULT_MAX_PAGES
  /\ pages_extracted = 0
  /\ next_control = FALSE

\* the extractor at rest
ExtractIdle ==
  /\ markup = << >>
  /\ records = << >>
  /\ xpc = "off"

\* no process yet: the state of main's variables before the first run
MainIdle ==
  /\ pc = "idle"
  /\ run = 0
  /\ ended = "returned"
  /\ file = [kind |-> "absent", ids |-> << >>]
  /\ seen = {}
  /\ results = << >>
  /\ idx = 0
  /\ new_count = 0
  /\ exc = "none"
  /\ sent = << >>
  /\ seen0 = {}
  /\ file0 = [kind |-> "absent", ids |-> << >>]
  /\ notified = << >>
  /\ last = [results |-> << >>, seen |-> {}, sent |-> << >>]

\* no interactor call
InteractIdle ==
  /\ fn = "none"
  /\ candidates = << >>
  /\ cand = 0
  /\ ipc = "off"
  /\ ret = FALSE
  /\ ops = << >>
  /\ tried = << >>

\* run_once's locals outside a run
RunIdle ==
  /\ pw = "none"
  /\ browser = "none"
  /\ ctx = "none"
  /\ page_content = << >>
  /\ page_results = << >>
  /\ field = 0

(***************************************************************************)
(* The markup the extractor is run on.                                     *)
(***************************************************************************)
\* data cells of one row: 1..MaxCells
MaxCells == 2

TXT_ACME == <<"A", "C", "M", "E">>
TXT_MONEY == <<"$", "5">>
TXT_DATE == <<"0", "1", "/", "1", "5", "/", "2", "0", "2", "4">>
\* a cell text longer than the id truncation length
TXT_LONG == [i \in 1..130 |-> "x"]

CellTexts == {<< >>, TXT_ACME, TXT_MONEY, TXT_DATE, TXT_LONG}

H_TITLE == <<"T", "i", "t", "l", "e">>
H_DATE == <<"D", "a", "t", "e">>
H_UPDATE == <<"U", "p", "d", "a", "t", "e">>
H_VENDOR == <<"V", "e", "n", "d", "o", "r">>
H_CONTRACTOR == <<"C", "o", "n", "t", "r", "a", "c", "t", "o", "r">>
H_AMOUNT == <<"A", "m", "o", "u", "n", "t">>
H_VALUE == <<"V", "a", "l", "u", "e">>

HeaderLists ==
  { << >>, <<H_DATE, H_UPDATE>>, <<H_VENDOR, H_CONTRACTOR>>, <<H_AMOUNT, H_VALUE>>,
    <<H_TITLE, H_VENDOR>>, <<H_TITLE, H_DATE, H_AMOUNT>> }

\* a link with text and a root-relative address
LINK_X == [text |-> <<"X">>, href |-> <<"/", "a", "/", "X">>]
\* a link with padded text and an absolute address
LINK_Y == [text |-> <<" ", "Y", " ">>, href |-> <<"h", "t", "t", "p", ":", "/", "/", "e", "/", "Y">>]
\* a link with no text and a relative address
LINK_NOTEXT == [text |-> << >>, href |-> <<".", "/", "b", "/", "Y">>]
\* a link with whitespace-only text and an address whose final path segment is empty
LINK_SLASH == [text |-> <<" ", "\t">>, href |-> <<"/", "a", "/">>]
\* a link with no text and an empty address
LINK_EMPTY == [text |-> << >>, href |-> << >>]

Links == {LINK_X, LINK_Y, LINK_NOTEXT, LINK_SLASH, LINK_EMPTY}

RowLinks == {<< >>} \cup {<<l>> : l \in Links} \cup {<<LINK_NOTEXT, LINK_X>>, <<LINK_X, LINK_Y>>}

RowCells == UNION {[1..n -> CellTexts] : n \in 1..MaxCells}

DataRows == {[ths |-> << >>, tds |-> c, links |-> l] : c \in RowCells, l \in RowLinks}

HeaderRows == {[ths |-> h, tds |-> << >>, links |-> << >>] : h \in HeaderLists}

\* a second data row, after the one that varies
SecondRows ==
  { [ths |-> << >>, tds |-> <<TXT_ACME>>, links |-> << >>],
    [ths |-> << >>, tds |-> <<TXT_DATE, TXT_MONEY>>, links |-> <<LINK_X>>] }

\* tables of more than one row: a header row, a data row and at most one more data row
ResultTables ==
  {<<h, r>> : h \in HeaderRows, r \in DataRows}
    \cup {<<h, r, r2>> : h \in HeaderRows, r \in DataRows, r2 \in SecondRows}

\* tables of no row or of one row
LayoutTables ==
  { << >>, <<[ths |-> << >>, tds |-> <<TXT_ACME>>, links |-> <<LINK_X>>]>>,
    <<[ths |-> <<H_DATE>>, tds |-> << >>, links |-> << >>]>> }

\* markup with no table, with layout tables only, and with a result table before or after a layout table
Pages ==
  {<< >>} \cup {<<t>> : t \in LayoutTables}
    \cup {<<t, u>> : t \in LayoutTables, u \in LayoutTables}
    \cup {<<t>> : t \in ResultTables}
    \cup {<<l, t>> : l \in LayoutTables, t \in ResultTables}

(***************************************************************************)
(* The extractor applied to a page.                                        *)
(***************************************************************************)
ExtractInit ==
  /\ markup \in Pages
  /\ records = << >>
  /\ xpc = "ready"
  /\ MainIdle
  /\ RunIdle
  /\ InteractIdle
  /\ PagerIdle

\* records = parse_results_table(markup)
Extract ==
  /\ xpc = "ready"
  /\ records' = parse_results_table(markup)
  /\ xpc' = "parsed"
  /\ UNCHANGED <<markup, mainVars, runVars, interactVars, pagerVars>>

ExtractNext == Extract

SpecExtract == ExtractInit /\ [][ExtractNext]_vars

\* the data rows of the selected table, in document order
SelectedDataRows ==
  IF BestTable(markup) = 0 THEN << >>
  ELSE SelectSeq(markup[BestTable(markup)], LAMBDA tr : tr.tds # << >>)

\* the headers of the table the extractor selected
SelectedHeaders ==
  IF BestTable(markup) = 0 THEN << >> ELSE HeadersOf(markup[BestTable(markup)])

\* row_texts[idx] if idx < len(row_texts) else ""
CellAt(tr, i) == IF i <= Len(tr.tds) THEN tr.tds[i] ELSE << >>

\* the columns whose header satisfies the match condition of date
DateColumns(headers) ==
  {i \in 1..Len(headers) : Contains(Lower(headers[i]), <<"d", "a", "t", "e">>)}

\* the columns whose header satisfies the match condition of vendor
VendorColumns(headers) ==
  {i \in 1..Len(headers) :
     \/ Contains(Lower(headers[i]), <<"v", "e", "n", "d", "o", "r">>)
     \/ Contains(Lower(headers[i]), <<"c", "o", "n", "t", "r", "a", "c", "t", "o", "r">>)}

\* the columns that satisfy the match condition of amount for the row
AmountColumns(headers, tr) ==
  {i \in 1..Len(headers) :
     \/ Contains(Lower(headers[i]), <<"a", "m", "o", "u", "n", "t">>)
     \/ Contains(Lower(headers[i]), <<"v", "a", "l", "u", "e">>)
     \/ Contains(CellAt(tr, i), <<"$">>)}

\* the leftmost column of a non-empty set of columns
Leftmost(columns) == CHOOSE i \in columns : \A j \in columns : i <= j

(* C18: each of date, vendor and amount is the cell value of the leftmost
   column that satisfies the field's match condition, also when that cell is
   empty or missing from the row. *)
C18_LeftmostMatchingColumnWins ==
  xpc = "parsed" =>
    \A k \in 1..Len(SelectedDataRows) :
      LET tr == SelectedDataRows[k]
          dates == DateColumns(SelectedHeaders)
          vendors == VendorColumns(SelectedHeaders)
          amounts == AmountColumns(SelectedHeaders, tr)
      IN  /\ k <= Len(records)
          /\ vendors # {} => records[k].vendor = CellAt(tr, Leftmost(vendors))
          /\ amounts # {} => records[k].amount = CellAt(tr, Leftmost(amounts))
          /\ dates # {} => records[k].date = CellAt(tr, Leftmost(dates))

(* C19: the row text is searched for a date pattern only when no header
   contains "date"; when a header matched, the record's date is the value of
   a date column, possibly empty. *)
C19_PatternSearchOnlyWithoutDateHeader ==
  xpc = "parsed" =>
    \A k \in 1..Len(SelectedDataRows) :
      LET tr == SelectedDataRows[k]
          dates == DateColumns(SelectedHeaders)
      IN  /\ k <= Len(records)
          /\ IF dates = {}
               THEN records[k].date = DateSearch(Join(<<" ">>, tr.tds))
               ELSE records[k].date \in {CellAt(tr, i) : i \in dates}

\* no table of the markup has more than one row
NoTableOfManyRows(html) == \A t \in 1..Len(html) : Len(html[t]) <= 1

C9_NoLinkRowIdIsCellText ==
  xpc = "parsed" =>
    /\ Len(records) = Len(SelectedDataRows)
    /\ \A k \in 1..Len(SelectedDataRows) :
         SelectedDataRows[k].links = << >> =>
           /\ records[k].id = Truncate(Join(<<"|">>, SelectedDataRows[k].tds), ID_TRUNCATE)
           /\ records[k].link = PORTAL_ROOT

(* C10: every record the table extractor produces has a non-empty id. *)
C10_EveryRecordHasId ==
  xpc = "parsed" => \A k \in 1..Len(records) : records[k].id # << >>

(***************************************************************************)
(* Persistence and notification.                                           *)
(***************************************************************************)
\* load_seen(): a missing file, unparsable content or a non-list gives the empty set
load_seen(f) == IF f.kind = "list" THEN SetOf(f.ids) ELSE {}

\* what a completed save_seen(s) leaves in the file
SavedFile(s) == [kind |-> "list", ids |-> Sorted(s)]

\* what open(STATE_FILE, "w") leaves: the file truncated, its old content gone
TruncatedFile == [kind |-> "partial", ids |-> << >>]

\* send_discord(content): one call, appended to the log of the run
send_discord(log, content) == Append(log, content)

NoTableMsg == [kind |-> "no_table"]
NoRowsMsg == [kind |-> "no_rows"]
NoResultsMsg == [kind |-> "no_results"]
NoNewMsg == [kind |-> "no_new"]
ErrorMsg(e) == [kind |-> "error", description |-> e]

\* the lines of the message of one new record
MessageParts(r) ==
  <<[line |-> "title", text |-> IF r.title # << >> THEN r.title ELSE PLACEHOLDER_TITLE]>>
    \o (IF r.vendor # << >> THEN <<[line |-> "Vendor", text |-> r.vendor]>> ELSE << >>)
    \o (IF r.date # << >> THEN <<[line |-> "Date", text |-> r.date]>> ELSE << >>)
    \o (IF r.amount # << >> THEN <<[line |-> "Amount", text |-> r.amount]>> ELSE << >>)
    \o <<[line |-> "link", text |-> IF r.link # << >> THEN r.link ELSE PORTAL_ROOT]>>

RecordMsg(r, rid) == [kind |-> "record", rid |-> rid, parts |-> MessageParts(r)]

\* the loop body with seen.add(rid) replacing the set by {rid}
LoopBody_ReplacesSeen(r, st) ==
  LET rid == Strip(r.id)
  IN  IF rid # << >> /\ rid \notin st.seen
        THEN [seen |-> {rid},
              new_count |-> st.new_count + 1,
              sent |-> send_discord(st.sent, RecordMsg(r, rid)),
              notified |-> Append(st.notified, rid)]
        ELSE st

\* the loop body without seen.add(rid)
LoopBody_NoAdd(r, st) ==
  LET rid == Strip(r.id)
  IN  IF rid # << >> /\ rid \notin st.seen
        THEN [seen |-> st.seen,
              new_count |-> st.new_count + 1,
              sent |-> send_discord(st.sent, RecordMsg(r, rid)),
              notified |-> Append(st.notified, rid)]
        ELSE st

\* the loop body without the test "rid not in seen"
LoopBody_NoSeenTest(r, st) ==
  LET rid == Strip(r.id)
  IN  IF rid # << >>
        THEN [seen |-> st.seen \cup {rid},
              new_count |-> st.new_count + 1,
              sent |-> send_discord(st.sent, RecordMsg(r, rid)),
              notified |-> Append(st.notified, rid)]
        ELSE st

\* the body of main's for loop for the record r; st is [seen, new_count, sent, notified]
LoopBody(r, st) ==
  LET rid == Strip(r.id)
  IN  IF rid # << >> /\ rid \notin st.seen
        THEN [seen |-> st.seen \cup {rid},
              new_count |-> st.new_count + 1,
              sent |-> send_discord(st.sent, RecordMsg(r, rid)),
              notified |-> Append(st.notified, rid)]
        ELSE st

(***************************************************************************)
(* main.                                                                   *)
(***************************************************************************)
\* a process starts: seen = load_seen()
MainLoad ==
  /\ pc = "idle"
  /\ run < MaxRuns
  /\ run' = run + 1
  /\ ended' = "running"
  /\ seen' = load_seen(file)
  /\ seen0' = load_seen(file)
  /\ file0' = file
  /\ last' = [results |-> results, seen |-> seen, sent |-> sent]
  /\ results' = << >>
  /\ idx' = 0
  /\ new_count' = 0
  /\ exc' = "none"
  /\ sent' = << >>
  /\ pc' = "run_once"
  /\ pw' = "none"
  /\ browser' = "none"
  /\ ctx' = "none"
  /\ page_content' = << >>
  /\ page_results' = << >>
  /\ field' = 0
  /\ pages_extracted' = 0
  /\ next_control' = FALSE
  /\ UNCHANGED <<file, notified, MAX_PAGES, extractVars, interactVars>>

\* main without the handler: the exception of run_once ends the process
MainExcept_NotCaught ==
  /\ pc = "except"
  /\ pc' = "idle"
  /\ ended' = "uncaught"
  /\ UNCHANGED <<run, file, seen, results, idx, new_count, exc, sent, seen0, file0, notified,
                 last, extractVars, runVars, interactVars, pagerVars>>

\* except Exception as e: send_discord(error); return
MainExcept ==
  /\ pc = "except"
  /\ sent' = send_discord(sent, ErrorMsg(exc))
  /\ pc' = "idle"
  /\ ended' = "returned"
  /\ UNCHANGED <<run, file, seen, results, idx, new_count, exc, seen0, file0, notified, last,
                 extractVars, runVars, interactVars, pagerVars>>

\* if not results: send_discord(no results); return
MainNoResults ==
  /\ pc = "check"
  /\ results = << >>
  /\ sent' = send_discord(sent, NoResultsMsg)
  /\ pc' = "idle"
  /\ ended' = "returned"
  /\ UNCHANGED <<run, file, seen, results, idx, new_count, exc, seen0, file0, notified, last,
                 extractVars, runVars, interactVars, pagerVars>>

\* new_count = 0, and the for loop is entered
MainEnterLoop ==
  /\ pc = "check"
  /\ results # << >>
  /\ new_count' = 0
  /\ idx' = 1
  /\ pc' = "loop"
  /\ UNCHANGED <<run, ended, file, seen, results, exc, sent, seen0, file0, notified, last,
                 extractVars, runVars, interactVars, pagerVars>>

\* one round of the for loop
MainLoopStep ==
  /\ pc = "loop"
  /\ idx <= Len(results)
  /\ LET st == LoopBody(results[idx],
                 [seen |-> seen, new_count |-> new_count, sent |-> sent, notified |-> notified])
     IN  /\ seen' = st.seen
         /\ new_count' = st.new_count
         /\ sent' = st.sent
         /\ notified' = st.notified
  /\ idx' = idx + 1
  /\ UNCHANGED <<pc, run, ended, file, results, exc, seen0, file0, last, extractVars, runVars, interactVars, pagerVars>>

\* after the loop: if new_count == 0: send_discord(no new items)
MainAfterLoop ==
  /\ pc = "loop"
  /\ idx > Len(results)
  /\ sent' = IF new_count = 0 THEN send_discord(sent, NoNewMsg) ELSE sent
  /\ pc' = "save"
  /\ UNCHANGED <<run, ended, file, seen, results, idx, new_count, exc, seen0, file0, notified,
                 last, extractVars, runVars, interactVars, pagerVars>>

\* save_seen: open(STATE_FILE, "w") raises and main ends with the exception, or
\* it truncates the file
SaveOpen ==
  /\ pc = "save"
  /\ \/ /\ pc' = "idle"
        /\ ended' = "uncaught"
        /\ UNCHANGED file
     \/ /\ file' = TruncatedFile
        /\ pc' = "dump"
        /\ UNCHANGED ended
  /\ UNCHANGED <<run, seen, results, idx, new_count, exc, sent, seen0, file0, notified, last,
                 extractVars, runVars, interactVars, pagerVars>>

\* save_seen: json.dump writes the sorted list, or the write fails or the
\* process is stopped before it is complete
SaveDump ==
  /\ pc = "dump"
  /\ \/ /\ file' = SavedFile(seen)
        /\ ended' = "returned"
     \/ /\ ended' = "uncaught"
        /\ UNCHANGED file
  /\ pc' = "idle"
  /\ UNCHANGED <<run, seen, results, idx, new_count, exc, sent, seen0, file0, notified, last,
                 extractVars, runVars, interactVars, pagerVars>>

(***************************************************************************)
(* main with run_once seen from its caller: it raises, it reports that no  *)
(* results table appeared and returns no record, or it returns the records *)
(* extracted from the portal's markup.                                     *)
(***************************************************************************)
ROW_HEAD == [ths |-> <<H_VENDOR, H_DATE>>, tds |-> << >>, links |-> << >>]
ROW_X == [ths |-> << >>, tds |-> <<TXT_ACME, TXT_DATE>>, links |-> <<LINK_X>>]
\* the same award as ROW_X, shown a second time
ROW_X2 == [ths |-> << >>, tds |-> <<TXT_ACME>>, links |-> <<LINK_X>>]
ROW_Y == [ths |-> << >>, tds |-> <<TXT_MONEY>>, links |-> <<LINK_Y>>]
ROW_SLASH == [ths |-> << >>, tds |-> <<TXT_ACME>>, links |-> <<LINK_SLASH>>]
ROW_NOLINK == [ths |-> << >>, tds |-> <<TXT_ACME>>, links |-> << >>]

\* the markup the portal may show
PortalPages ==
  { << >>,
    << <<ROW_HEAD>> >>,
    << <<ROW_HEAD, ROW_X>> >>,
    << <<ROW_HEAD, ROW_Y>> >>,
    << <<ROW_HEAD, ROW_X, ROW_Y>> >>,
    << <<ROW_HEAD, ROW_X, ROW_X2>> >>,
    << <<ROW_HEAD, ROW_SLASH, ROW_Y>> >>,
    << <<ROW_HEAD, ROW_NOLINK, ROW_X>> >>,
    << <<ROW_HEAD, ROW_Y, ROW_X, ROW_X2>> >> }

RunErrors == {"Error", "NameError"}

\* results = await run_once() raises
RunOnceRaises ==
  /\ pc = "run_once"
  /\ exc' \in RunErrors
  /\ sent' \in {sent, send_discord(sent, NoRowsMsg)}
  /\ pc' = "except"
  /\ UNCHANGED <<run, ended, file, seen, results, idx, new_count, seen0, file0, notified, last,
                 extractVars, runVars, interactVars, pagerVars>>

\* results = await run_once() after the wait for the results marker timed out
RunOnceTimesOut ==
  /\ pc = "run_once"
  /\ sent' = send_discord(sent, NoTableMsg)
  /\ results' = << >>
  /\ pc' = "check"
  /\ UNCHANGED <<run, ended, file, seen, idx, new_count, exc, seen0, file0, notified, last,
                 extractVars, runVars, interactVars, pagerVars>>

\* results = await run_once() with the records of the portal's markup
RunOnceReturns ==
  /\ pc = "run_once"
  /\ \E p \in PortalPages :
       /\ results' = parse_results_table(p)
       /\ sent' = IF parse_results_table(p) = << >>
                    THEN send_discord(sent, NoRowsMsg) ELSE sent
  /\ pc' = "check"
  /\ UNCHANGED <<run, ended, file, seen, idx, new_count, exc, seen0, file0, notified, last,
                 extractVars, runVars, interactVars, pagerVars>>

\* the state file before the first run: none, or one an earlier run wrote
InitialFiles ==
  {[kind |-> "absent", ids |-> << >>]} \cup {SavedFile(s) : s \in SUBSET {<<"X">>, <<"Y">>}}

MainStart ==
  /\ pc = "idle"
  /\ run = 0
  /\ ended = "returned"
  /\ file \in InitialFiles
  /\ seen = {}
  /\ results = << >>
  /\ idx = 0
  /\ new_count = 0
  /\ exc = "none"
  /\ sent = << >>
  /\ seen0 = {}
  /\ file0 = file
  /\ notified = << >>
  /\ last = [results |-> << >>, seen |-> {}, sent |-> << >>]
  /\ RunIdle
  /\ ExtractIdle
  /\ InteractIdle

\* the pipeline with run_once as an input: MAX_PAGES is left at its default
MainInit ==
  /\ MainStart
  /\ PagerIdle

MainNext ==
  \/ MainLoad
  \/ RunOnceRaises
  \/ RunOnceTimesOut
  \/ RunOnceReturns
  \/ MainExcept
  \/ MainNoResults
  \/ MainEnterLoop
  \/ MainLoopStep
  \/ MainAfterLoop
  \/ SaveOpen
  \/ SaveDump

SpecMain == MainInit /\ [][MainNext]_vars

\* the rids of the per-record notifications of a log
RecordRids(log) ==
  LET msgs == SelectSeq(log, LAMBDA m : m.kind = "record")
  IN  [k \in 1..Len(msgs) |-> msgs[k].rid]

\* how often x occurs in the sequence
Count(seq, x) == Cardinality({k \in 1..Len(seq) : seq[k] = x})

(* C1: over any sequence of runs of main that share the state file, each
   record id triggers at most one per-record notification in total. *)
C1_AtMostOneNotificationPerId ==
  \A k \in 1..Len(notified) : Count(notified, notified[k]) <= 1

\* the dedup/notify stage of the run has gone through its whole record list
PipelineDone == results # << >> /\ pc \in {"save", "dump", "idle"}

\* the distinct non-empty ids of the record list that the run did not start with
NewIds == ({results[k].id : k \in 1..Len(results)} \ {<< >>}) \ seen0

(* C2: the seen-set the dedup/notify stage ends with is a superset of the
   seen-set the run started with: no id is removed, in any run. *)
C2_SeenSetOnlyGrows == seen0 \subseteq seen

\* a run that started with a non-empty seen-set, added to it and ended
C2_Witness ==
  /\ pc = "idle"
  /\ ended = "returned"
  /\ PipelineDone
  /\ seen0 # {}
  /\ seen # seen0
  /\ \E k \in 1..Len(results) : results[k].id \in seen0

(* C3: a second run of the dedup/notify stage on the same record list,
   started from the seen-set the first run ended with, emits no per-record
   notification and leaves the seen-set unchanged. *)
C3_SecondRunIdempotent ==
  (pc = "idle" /\ run >= 2 /\ results = last.results /\ seen0 = last.seen) =>
    /\ RecordRids(sent) = << >>
    /\ seen = seen0

\* the second of two runs on the same records, the first of which notified
C3_Witness ==
  /\ pc = "idle"
  /\ run >= 2
  /\ results = last.results
  /\ seen0 = last.seen
  /\ Len(RecordRids(last.sent)) >= 2
  /\ Len(results) >= 2

(* C4: for a non-empty record list, the stage emits exactly one per-record
   notification for each distinct non-empty id that is not in the input
   seen-set, none for any other id, and ends with the input seen-set united
   with those new ids. *)
C4_OneNotificationPerNewId ==
  PipelineDone =>
    /\ \A x \in NewIds : Count(RecordRids(sent), x) = 1
    /\ \A k \in 1..Len(RecordRids(sent)) : RecordRids(sent)[k] \in NewIds
    /\ seen = seen0 \cup NewIds

\* a list in which a new id occurs twice, beside an id the run started with
C4_Witness ==
  /\ PipelineDone
  /\ \E i, j \in 1..Len(results) : i < j /\ results[i].id = results[j].id /\ results[i].id \in NewIds
  /\ \E k \in 1..Len(results) : results[k].id \in seen0

(***************************************************************************)
(* run_once, statement by statement.                                       *)
(***************************************************************************)
\* the number of interactor calls of run_once: agency, NAICS, PSC, date from,
\* date to, and the click on Search
FIELD_CALLS == 6

\* what stopping the driver does to a browser or a context it holds
Stopped(handle) == IF handle = "open" THEN "closed" ELSE handle

\* control leaves the async with block as if async_playwright() were not a
\* context manager: the driver keeps running and the browser stays open
AsyncWithExit_NoStop == UNCHANGED <<pw, browser, ctx>>

\* control leaves the block of "async with async_playwright() as p": the driver
\* is stopped, and with it the browser it launched and the browser's contexts
AsyncWithExit ==
  /\ pw' = IF pw = "started" THEN "stopped" ELSE pw
  /\ browser' = Stopped(browser)
  /\ ctx' = Stopped(ctx)

\* an exception leaves run_once through the async with block
Raises(e) ==
  /\ exc' = e
  /\ pc' = "except"
  /\ AsyncWithExit

\* async with async_playwright() as p: browser = await p.chromium.launch(headless=True)
RunLaunch ==
  /\ pc = "run_once"
  /\ \/ /\ pw' = "started"
        /\ browser' = "open"
        /\ pc' = "new_context"
        /\ UNCHANGED exc
     \/ /\ exc' = "launch"
        /\ pc' = "except"
        /\ UNCHANGED <<pw, browser>>
  /\ UNCHANGED <<run, ended, file, seen, results, idx, new_count, sent, seen0, file0, notified,
                 last, ctx, page_content, page_results, field, extractVars, interactVars, pagerVars>>

\* ctx = await browser.new_context()
RunNewContext ==
  /\ pc = "new_context"
  /\ \/ /\ ctx' = "open"
        /\ pc' = "goto"
        /\ UNCHANGED <<exc, pw, browser>>
     \/ Raises("new_context")
  /\ UNCHANGED <<run, ended, file, seen, results, idx, new_count, sent, seen0, file0, notified,
                 last, page_content, page_results, field, extractVars, interactVars, pagerVars>>

\* page = await ctx.new_page(); await page.goto(ADVANCED_SEARCH_URL, ...)
RunGoto ==
  /\ pc = "goto"
  /\ \/ /\ pc' = "fields"
        /\ field' = 1
        /\ UNCHANGED <<exc, pw, browser, ctx>>
     \/ /\ Raises("goto")
        /\ UNCHANGED field
  /\ UNCHANGED <<run, ended, file, seen, results, idx, new_count, sent, seen0, file0, notified,
                 last, page_content, page_results, extractVars, interactVars, pagerVars>>

\* one of the calls of safe_fill, safe_type and click_first_that_exists: it
\* returns true or false, its result is not looked at, and it never raises
RunField ==
  /\ pc = "fields"
  /\ field' = field + 1
  /\ pc' = IF field = FIELD_CALLS THEN "settle" ELSE "fields"
  /\ UNCHANGED <<run, ended, file, seen, results, idx, new_count, exc, sent, seen0, file0,
                 notified, last, pw, browser, ctx, page_content, page_results, extractVars, interactVars, pagerVars>>

\* await page.wait_for_timeout(4500), twice (lines 193 and 196; the "try:" of
\* line 194 has no body and no handler, and is read as not there)
RunSettle ==
  /\ pc = "settle"
  /\ \/ /\ pc' = "wait_marker"
        /\ UNCHANGED <<exc, pw, browser, ctx>>
     \/ Raises("wait_for_timeout")
  /\ UNCHANGED <<run, ended, file, seen, results, idx, new_count, sent, seen0, file0, notified,
                 last, page_content, page_results, field, extractVars, interactVars, pagerVars>>

\* await page.wait_for_selector(...): the marker is visible, or the wait times
\* out (send_discord(no table); return []), or it fails otherwise
RunWaitMarker ==
  /\ pc = "wait_marker"
  /\ \/ /\ pc' = "content"
        /\ UNCHANGED <<exc, pw, browser, ctx, sent, results>>
     \/ /\ sent' = send_discord(sent, NoTableMsg)
        /\ results' = << >>
        /\ pc' = "check"
        /\ AsyncWithExit
        /\ UNCHANGED exc
     \/ /\ Raises("wait_for_selector")
        /\ UNCHANGED <<sent, results>>
  /\ UNCHANGED <<run, ended, file, seen, idx, new_count, seen0, file0, notified,
                 last, page_content, page_results, field, extractVars, interactVars, pagerVars>>

\* the markup of a page on which a table is visible
VisiblePages == {p \in PortalPages : Len(p) >= 1}

\* html = await page.content()
RunContent ==
  /\ pc = "content"
  /\ \/ /\ page_content' \in VisiblePages
        /\ next_control' \in BOOLEAN
        /\ pc' = "parse"
        /\ UNCHANGED <<exc, pw, browser, ctx>>
     \/ /\ Raises("content")
        /\ UNCHANGED <<page_content, next_control>>
  /\ UNCHANGED <<run, ended, file, seen, results, idx, new_count, sent, seen0, file0, notified,
                 last, page_results, field, MAX_PAGES, pages_extracted,
                 extractVars, interactVars>>

\* page_results = parse_results_table(html); if not page_results: send_discord(no rows)
RunParse ==
  /\ pc = "parse"
  /\ page_results' = parse_results_table(page_content)
  /\ sent' = IF parse_results_table(page_content) = << >>
               THEN send_discord(sent, NoRowsMsg) ELSE sent
  /\ pages_extracted' = pages_extracted + 1
  /\ pc' = "extend"
  /\ UNCHANGED <<run, ended, file, seen, results, idx, new_count, exc, seen0, file0, notified,
                 last, pw, browser, ctx, page_content, field, MAX_PAGES, next_control,
                 extractVars, interactVars>>

\* results_collected.extend(page_results): the name results_collected is bound
\* nowhere, so the statement raises NameError
RunExtend ==
  /\ pc = "extend"
  /\ Raises("NameError")
  /\ UNCHANGED <<run, ended, file, seen, results, idx, new_count, sent, seen0, file0, notified,
                 last, page_content, page_results, field, extractVars, interactVars, pagerVars>>

\* the process as started: MAX_PAGES is whatever the environment configured
Init ==
  /\ MainStart
  /\ MAX_PAGES \in ConfiguredMaxPages
  /\ pages_extracted = 0
  /\ next_control = FALSE

Next ==
  \/ MainLoad
  \/ RunLaunch
  \/ RunNewContext
  \/ RunGoto
  \/ RunField
  \/ RunSettle
  \/ RunWaitMarker
  \/ RunContent
  \/ RunParse
  \/ RunExtend
  \/ MainExcept
  \/ MainNoResults

Spec == Init /\ [][Next]_vars

\* the messages of a kind in a log
OfKind(log, kind) == SelectSeq(log, LAMBDA m : m.kind = kind)

(* C5: a run in which the wait for the results marker timed out emits exactly
   one notification in total, the "no results table appeared" one, and adds
   no id to the seen-set. *)
C5_TimeoutOneNotification ==
  (pc = "idle" /\ OfKind(sent, "no_table") # << >>) =>
    /\ sent = <<NoTableMsg>>
    /\ seen = seen0
    /\ file = file0

(* C6: a failure raised at any point of run_once is caught by main: the run
   ends without an exception at the process boundary, exactly one
   notification carries the error description, and the state file and the
   seen-set are as they were at the start of the run. *)
C6_FailureCaughtAndReportedOnce ==
  /\ exc # "none" => pc \in {"except", "idle"}
  /\ (pc = "idle" /\ exc # "none") =>
       /\ ended = "returned"
       /\ OfKind(sent, "error") = <<ErrorMsg(exc)>>
       /\ file = file0
       /\ seen = seen0

\* a run that failed after its first page was fetched, with a seen-set on file
C6_Witness ==
  /\ pc = "idle"
  /\ exc = "content"
  /\ file0.ids # << >>

(***************************************************************************)
(* The selector-fallback interactor: safe_fill, safe_type and              *)
(* click_first_that_exists.                                                *)
(* A candidate is given with what the page does for it: whether it is a    *)
(* "label:" reference, how many elements it resolves to, and the operation *)
(* that raises for it ("none": none; "count": locator.count()).            *)
(***************************************************************************)
Functions == {"safe_fill", "safe_type", "click_first_that_exists"}

Operations == {"count", "click", "fill", "clear", "type"}

\* the operations the function performs on the element, in order
\* (clear: locator.fill(""))
ActionOf(f) ==
  CASE f = "safe_fill" -> <<"fill">>
    [] f = "safe_type" -> <<"click", "clear", "type">>
    [] f = "click_first_that_exists" -> <<"click">>

\* the candidates a call of f may be given, each described once: a "label:"
\* reference is never counted and is acted on only if it resolves to one
\* element, no element of a selector without a match is acted on, and
\* click_first_that_exists is given no "label:" reference
CandidatesOf(f) ==
  { c \in [label : BOOLEAN, matches : 0..MaxMatches, raises : {"none"} \cup Operations] :
      /\ c.raises \in {"none", "count"} \cup {ActionOf(f)[j] : j \in 1..Len(ActionOf(f))}
      /\ f = "click_first_that_exists" => ~c.label
      /\ c.label => c.raises # "count"
      /\ (c.label /\ c.matches # 1) => c.raises = "none"
      /\ (~c.label /\ c.matches = 0) => c.raises \in {"none", "count"} }

\* the operations performed on the first match of candidate k before one raises
Performed(f, c, k) ==
  LET act == ActionOf(f)
      n == IF \E j \in 1..Len(act) : act[j] = c.raises
             THEN (CHOOSE j \in 1..Len(act) : act[j] = c.raises) - 1
             ELSE Len(act)
  IN  [done |-> [j \in 1..n |-> [candidate |-> k, element |-> 1, op |-> act[j]]],
       outcome |-> IF n = Len(act) THEN "acted" ELSE "error"]

\* the body of the try block for candidate k.  A label locator is acted on
\* without a count: the operation raises unless it resolves to one element.
\* Another selector is counted, and its first match is acted on if there is one.
Try(f, c, k) ==
  IF f # "click_first_that_exists" /\ c.label
    THEN IF c.matches = 1 THEN Performed(f, c, k)
         ELSE [done |-> << >>, outcome |-> "error"]
    ELSE IF c.raises = "count" THEN [done |-> << >>, outcome |-> "error"]
    ELSE IF c.matches > 0 THEN Performed(f, c, k)
    ELSE [done |-> << >>, outcome |-> "nomatch"]

\* the loop without "except Exception: continue": an error leaves the function
InteractTry_NoExcept ==
  /\ ipc = "loop"
  /\ cand <= Len(candidates)
  /\ LET r == Try(fn, candidates[cand], cand)
     IN  /\ ops' = ops \o r.done
         /\ tried' = Append(tried, cand)
         /\ ipc' = CASE r.outcome = "acted" -> "returned"
                     [] r.outcome = "error" -> "raised"
                     [] OTHER -> "loop"
         /\ ret' = (r.outcome = "acted")
         /\ cand' = IF r.outcome = "nomatch" THEN cand + 1 ELSE cand
  /\ UNCHANGED <<fn, candidates, extractVars, mainVars, runVars, pagerVars>>

\* the loop trying the candidates from the last to the first
InteractTry_Backwards ==
  /\ ipc = "loop"
  /\ cand <= Len(candidates)
  /\ LET k == Len(candidates) + 1 - cand
         r == Try(fn, candidates[k], k)
     IN  /\ ops' = ops \o r.done
         /\ tried' = Append(tried, k)
         /\ ipc' = IF r.outcome = "acted" THEN "returned" ELSE "loop"
         /\ ret' = (r.outcome = "acted")
         /\ cand' = IF r.outcome = "acted" THEN cand ELSE cand + 1
  /\ UNCHANGED <<fn, candidates, extractVars, mainVars, runVars, pagerVars>>

\* one round of "for sel in candidates": return True after the action, go on
\* to the next candidate after no match or an exception
InteractTry ==
  /\ ipc = "loop"
  /\ cand <= Len(candidates)
  /\ LET r == Try(fn, candidates[cand], cand)
     IN  /\ ops' = ops \o r.done
         /\ tried' = Append(tried, cand)
         /\ ipc' = IF r.outcome = "acted" THEN "returned" ELSE "loop"
         /\ ret' = (r.outcome = "acted")
         /\ cand' = IF r.outcome = "acted" THEN cand ELSE cand + 1
  /\ UNCHANGED <<fn, candidates, extractVars, mainVars, runVars, pagerVars>>

\* the loop is over: return False
InteractExhausted ==
  /\ ipc = "loop"
  /\ cand > Len(candidates)
  /\ ret' = FALSE
  /\ ipc' = "returned"
  /\ UNCHANGED <<fn, candidates, cand, ops, tried, extractVars, mainVars, runVars, pagerVars>>

\* a call of one of the three functions
InteractInit ==
  /\ fn \in Functions
  /\ candidates \in UNION {[1..n -> CandidatesOf(fn)] : n \in 0..MaxCandidates}
  /\ cand = 1
  /\ ipc = "loop"
  /\ ret = FALSE
  /\ ops = << >>
  /\ tried = << >>
  /\ MainIdle
  /\ RunIdle
  /\ ExtractIdle
  /\ PagerIdle

InteractNext == InteractTry \/ InteractExhausted

SpecInteract == InteractInit /\ [][InteractNext]_vars

\* the candidate resolves to no element, or resolving it or acting on it raises
Fails(k) == Try(fn, candidates[k], k).outcome \in {"nomatch", "error"}

\* the candidate resolves to at least one element: its locator counts, or for
\* a "label:" reference has, one match or more
Resolves(k) ==
  /\ candidates[k].matches >= 1
  /\ (fn = "click_first_that_exists" \/ ~candidates[k].label) => candidates[k].raises # "count"

(* C7, as claimed: the candidates are tried in list order, the action is
   performed on the first match of the first candidate that resolves to at
   least one element, and the call then returns true at once. *)
C7_FirstResolvingCandidateActs ==
  ipc = "returned" =>
    /\ tried = [k \in 1..Len(tried) |-> k]
    /\ \A k \in 1..Len(candidates) :
         (Resolves(k) /\ \A j \in 1..(k - 1) : ~Resolves(j)) =>
           /\ ret
           /\ cand = k
           /\ tried = [j \in 1..k |-> j]
           /\ ops = Performed(fn, candidates[k], k).done

(* C7, amended: the candidates are tried in list order; the call returns true
   at once after the first candidate whose action completes without an
   error, on its first match, and tries no later candidate; every candidate
   before it resolved to no element or raised. *)
C7_FirstSucceedingCandidateActs ==
  /\ tried = [k \in 1..Len(tried) |-> k]
  /\ ipc = "loop" => Len(tried) = cand - 1
  /\ (ipc = "returned" /\ ret) =>
       /\ tried = [k \in 1..cand |-> k]
       /\ \A j \in 1..(cand - 1) : Fails(j)
       /\ ~Fails(cand)
       /\ Resolves(cand)
       /\ Len(ops) >= Len(ActionOf(fn))
       /\ \A j \in 1..Len(ActionOf(fn)) :
            ops[Len(ops) - Len(ActionOf(fn)) + j]
              = [candidate |-> cand, element |-> 1, op |-> ActionOf(fn)[j]]

\* a call that returned true for its second candidate while a later one would
\* have matched too, the first having resolved and raised
C7_Witness ==
  /\ ipc = "returned"
  /\ ret
  /\ cand = 2
  /\ Resolves(1)
  /\ Len(candidates) > 2
  /\ Resolves(3)
  /\ ~Fails(3)

(* C8: the interactor returns false if and only if every candidate matches
   no element or raises while being resolved or acted on; such a candidate
   only advances the loop, and no exception leaves the interactor. *)
C8_FalseIffEveryCandidateFails ==
  /\ ipc # "raised"
  /\ ipc = "loop" => \A j \in 1..(cand - 1) : Fails(j) /\ tried[j] = j
  /\ ipc = "returned" =>
       (ret = FALSE <=> \A k \in 1..Len(candidates) : Fails(k))
  /\ (ipc = "returned" /\ ~ret) => tried = [k \in 1..Len(candidates) |-> k]

\* a call that returned false after a no-match and an exception
C8_Witness ==
  /\ ipc = "returned"
  /\ ~ret
  /\ Len(candidates) >= 2
  /\ \E j, k \in 1..Len(candidates) :
       /\ Try(fn, candidates[j], j).outcome = "nomatch"
       /\ Try(fn, candidates[k], k).outcome = "error"
       /\ candidates[k].matches >= 1

\* ---------------------------------------------------------------------------
\* Pagination and the browser session (run_once, lines 154-234)
\* ---------------------------------------------------------------------------

\* run_once is over: main holds its result or its exception
RunOnceOver == pc \in {"check", "except", "idle"} /\ run >= 1

(* C11: in every run the number of result pages handed to the extractor,
   the first page included, is at most the configured MAX_PAGES. *)
C11_PagesWithinCap == pages_extracted <= MAX_PAGES

(* C12: whenever run_once has ended after the browser was launched, by the
   early return on the marker timeout or by an exception, the browser and
   its context are closed and the driver is stopped. *)
C12_SessionClosedOnEveryExit ==
  (RunOnceOver /\ browser # "none") =>
    /\ pw = "stopped"
    /\ browser = "closed"
    /\ ctx # "open"

\* a run that failed after a context was opened and a page was extracted
C12_Witness ==
  /\ pc = "except"
  /\ exc = "NameError"
  /\ pages_extracted = 1
  /\ browser = "closed"
  /\ ctx = "closed"

(* C14: when the results marker appeared and a page was extracted, run_once
   returns to main, without an exception, the records of the pages it
   extracted in page order. *)
C14_ReturnsRecordsOfEveryPage ==
  (RunOnceOver /\ pages_extracted >= 1) =>
    /\ exc = "none"
    /\ results = page_results

(* C15: run_once stops extracting pages only when the page shown offers no
   next control or the page cap is reached. *)
C15_AdvancesWhileNextFound ==
  (RunOnceOver /\ pages_extracted >= 1) =>
    (~next_control \/ pages_extracted >= MAX_PAGES)

(* C16: a run in which the results table appeared and no data row was parsed
   sends exactly one notification in total. *)
C16_EmptyPagesOneNotification ==
  (pc = "idle" /\ run >= 1 /\ pages_extracted >= 1 /\ page_results = << >>) =>
    Len(sent) = 1

(* C17: a run in which run_once returned without an exception ends with the
   seen-set written to the state file. *)
C17_SeenSetSavedWhenStageReached ==
  (pc = "idle" /\ run >= 1 /\ exc = "none" /\ ended = "returned") =>
    file = SavedFile(seen)

(* C20: in one call of safe_fill, safe_type or click_first_that_exists the
   operations performed all concern one candidate's element, and a call
   that returned false performed no operation on any element. *)
C20_AtMostOneCandidateActedOn ==
  /\ \A i, j \in 1..Len(ops) : ops[i].candidate = ops[j].candidate
  /\ (ipc = "returned" /\ ~ret) => ops = << >>

====
